---- MODULE Spec2Model ----
(***************************************************************************)
(* Model of the streaming ingest path of rust-trading-system:              *)
(*   market_data/binance.rs  BinanceClient  (connect, read loop, decoding) *)
(*   market_data/stream.rs   MarketDataStream (spawned task, next_event)   *)
(*   market_data/types.rs    Ticker, MarketDataEvent                       *)
(*                                                                         *)
(* One action is one await-to-await step of a task: the ingest task's      *)
(* connect_async, one iteration of its `while let Some(msg) = read.next()` *)
(* loop (the await together with the synchronous match arm that follows),  *)
(* and the consumer's next_event call, its return, and the drop of the     *)
(* handle.  Sends on the unbounded channel never suspend.                  *)
(***************************************************************************)
EXTENDS Integers, Sequences, FiniteSets, TLC

\* ------------------------------------------------------------------ bounds
\* number of items the WebSocket stream yields to the read loop
MaxFrames == 3
\* number of next_event calls the consumer makes
MaxCalls == 4

\* ------------------------------------------------------- JSON frame model
\* A JSON member that is absent (or whose as_str()/as_u64() yields None).
Missing == "<missing>"
\* as_u64() == None
NoU64 == -1

\* Channel names, as the pieces the code's substring test can tell apart.
TickerChannel == <<"btcusdt", "@ticker">>
TradeChannel == <<"btcusdt", "@trade">>
WindowChannel == <<"btcusdt", "@ticker", "_1h">>
NoChannel == <<>>

\* The ticker payload: "s", "c", "v" members as strings, "E" as integer.
Payload(s, c, v, E) == [s |-> s, c |-> c, v |-> v, E |-> E]

\* A text frame: json = FALSE is text that serde_json::from_str rejects;
\* stream = NoChannel is an object without a string "stream" member;
\* e is the top-level "e" member; p is the payload object (data["data"] of
\* a combined envelope, the top-level object of a single envelope).
TextFrame(json, stream, e, p) ==
    [kind |-> "text", json |-> json, stream |-> stream, e |-> e, p |-> p]

EmptyPayload == Payload(Missing, Missing, Missing, NoU64)
CloseFrame == [kind |-> "close", json |-> FALSE, stream |-> NoChannel, e |-> Missing, p |-> EmptyPayload]
\* Binary, Ping, Pong, Frame: the `_ => {}` arm
OtherFrame == [kind |-> "other", json |-> FALSE, stream |-> NoChannel, e |-> Missing, p |-> EmptyPayload]
\* Some(Err(e)) from read.next()
ErrFrame == [kind |-> "err", json |-> FALSE, stream |-> NoChannel, e |-> Missing, p |-> EmptyPayload]

\* ---------------------------------------------------------------- events
\* market_data/types.rs: MarketDataEvent::{Ticker(Ticker), Error(String)}
TickerEvent(symbol, price, volume, timestamp) ==
    [tag |-> "Ticker", symbol |-> symbol, price |-> price, volume |-> volume,
     timestamp |-> timestamp, msg |-> ""]

ErrorEvent(msg) ==
    [tag |-> "Error", symbol |-> "", price |-> 0, volume |-> 0, timestamp |-> 0, msg |-> msg]

\* Option<MarketDataEvent> as returned by next_event
SomeEvent(ev) == [some |-> TRUE, ev |-> ev]
NoneEvent == [some |-> FALSE, ev |-> ErrorEvent("")]

\* ------------------------------------------------------------- decoding
\* str::parse::<f64>() on the decimal strings of the model; values are
\* whole numbers.  ok = FALSE is ParseFloatError.
ParseF64(str) ==
    CASE str = "0" -> [ok |-> TRUE, val |-> 0]
      [] str = "50000.00" -> [ok |-> TRUE, val |-> 50000]
      [] str = "50000" -> [ok |-> TRUE, val |-> 50000]
      [] str = "1000.0" -> [ok |-> TRUE, val |-> 1000]
      [] OTHER -> [ok |-> FALSE, val |-> 0]

\* variant: a missing number defaults to the empty string
OrZeroStr_empty(m) == IF m = Missing THEN "" ELSE m

\* unwrap_or("0"), unwrap_or_default(), unwrap_or(0)
OrZeroStr(m) == IF m = Missing THEN "0" ELSE m
OrEmpty(m) == IF m = Missing THEN "" ELSE m
OrZeroU64(m) == IF m = NoU64 THEN 0 ELSE m

\* parse_ticker: the price is parsed first, then the volume; either `?`
\* returns Err before the send.  emit is the sequence of events handed to
\* event_sender.send (at most one).
parse_ticker(p) ==
    LET price == ParseF64(OrZeroStr(p.c))
        volume == ParseF64(OrZeroStr(p.v))
    IN  IF ~price.ok \/ ~volume.ok
        THEN [err |-> TRUE, emit |-> <<>>]
        ELSE [err |-> FALSE,
              emit |-> <<TickerEvent(OrEmpty(p.s), price.val, volume.val, OrZeroU64(p.E))>>]

\* stream.contains("@ticker")
ContainsTicker(stream) == \E i \in 1..Len(stream) : stream[i] = "@ticker"

\* variant: the combined path hands the envelope itself, which has no
\* "s", "c", "v", "E" members, to parse_ticker
handle_message_parses_envelope(f) ==
    IF ~f.json THEN [err |-> TRUE, emit |-> <<>>]
    ELSE IF f.stream # NoChannel
         THEN IF ContainsTicker(f.stream) THEN parse_ticker(EmptyPayload)
              ELSE [err |-> FALSE, emit |-> <<>>]
         ELSE IF f.e = "24hrTicker" THEN parse_ticker(f.p)
              ELSE [err |-> FALSE, emit |-> <<>>]

\* handle_message
handle_message(f) ==
    IF ~f.json THEN [err |-> TRUE, emit |-> <<>>]
    ELSE IF f.stream # NoChannel
         THEN IF ContainsTicker(f.stream) THEN parse_ticker(f.p)
              ELSE [err |-> FALSE, emit |-> <<>>]
         ELSE IF f.e = "24hrTicker" THEN parse_ticker(f.p)
              ELSE [err |-> FALSE, emit |-> <<>>]

\* ------------------------------------------------- frames of the stream
FullPayload == Payload("BTCUSDT", "50000.00", "1000.0", 1640)
NoVolumePayload == Payload("BTCUSDT", "50000", Missing, 1641)
BadPricePayload == Payload("BTCUSDT", "abc", "1000.0", 1642)

CombinedTicker == TextFrame(TRUE, TickerChannel, Missing, FullPayload)
SingleTicker == TextFrame(TRUE, NoChannel, "24hrTicker", NoVolumePayload)
CombinedTrade == TextFrame(TRUE, TradeChannel, Missing, FullPayload)
InvalidJson == TextFrame(FALSE, NoChannel, Missing, EmptyPayload)
BadPriceTicker == TextFrame(TRUE, NoChannel, "24hrTicker", BadPricePayload)

TextFrames == {CombinedTicker, SingleTicker, CombinedTrade, InvalidJson, BadPriceTicker}

\* e.to_string() of the transport error
TransportErrorText == "Connection reset without closing handshake"

\* ----------------------------------------------------------------- state
VARIABLES
    taskpc,       \* ingest task: "connecting", "reading", "ended"
    startResult,  \* result of BinanceClient::start: "pending", "Ok", "Err"
    connects,     \* number of connect_async calls made
    senders,      \* live UnboundedSender handles of the channel
    queue,        \* the unbounded channel's buffer
    handle,       \* MarketDataStream: "alive" or "dropped"
    cpc,          \* consumer: "idle" or "waiting" (inside next_event)
    wire,         \* history: items read.next() has yielded, in order
    sent,         \* history: events accepted by the channel, in order
    failedSends,  \* history: number of sends that returned SendError
    returned      \* history: results of next_event, in order

\* State of the other two parts of the model: a REST call of the
\* TestnetTrader (RestSpec) and one application of a pure function
\* (PureSpec).  The streaming actions leave them alone.
VARIABLES
    rpc,          \* REST call: "idle", "sent" (request out), "done"
    rop,          \* the operation called, "none" when idle
    rparams,      \* the call's HashMap of parameters, key -> value
    riter,        \* the order in which the HashMap iterates its keys
    rreq,         \* the request handed to the HTTP client
    rresp,        \* the response received
    rresult,      \* the Result the operation returned
    pfun,         \* pure function applied, "none" before
    pin,          \* its input
    pout,         \* its output
    signed        \* history: the calls of sign made so far, in order

restVars == <<rpc, rop, rparams, riter, rreq, rresp, rresult>>
pureVars == <<pfun, pin, pout, signed>>
offlineVars == <<restVars, pureVars>>

vars == <<taskpc, startResult, connects, senders, queue, handle, cpc,
          wire, sent, failedSends, returned, offlineVars>>

taskVars == <<taskpc, startResult, connects, senders>>
consumerVars == <<handle, cpc, returned>>

\* variant: the handle keeps a clone of the sender next to the receiver
InitSenders_kept_clone == 1 + 1

\* MarketDataStream::new: unbounded_channel() creates one sender, which is
\* moved into the BinanceClient; the handle keeps only the receiver.
InitSenders == 1

\* No request, response or result yet.
NoRequest == [method |-> "none", url |-> <<>>, headers |-> {}, body |-> <<>>]
NoResponse == [arrived |-> FALSE, status |-> 0, readable |-> FALSE, body |-> "", json |-> FALSE, shape |-> "none", price |-> Missing]
NoResult == [ok |-> FALSE, kind |-> "none", msg |-> <<>>, value |-> "", num |-> 0]

\* no REST call under way
RestIdle ==
    /\ rpc = "idle"
    /\ rop = "none"
    /\ rparams = <<>>
    /\ riter = <<>>
    /\ rreq = NoRequest
    /\ rresp = NoResponse
    /\ rresult = NoResult

\* no pure function applied
PureIdle ==
    /\ pfun = "none"
    /\ pin = <<>>
    /\ pout = <<>>
    /\ signed = <<>>

\* no ingest task: the state of the stream variables in RestSpec and PureSpec
StreamIdle ==
    /\ taskpc = "ended"
    /\ startResult = "pending"
    /\ connects = 0
    /\ senders = 0
    /\ queue = <<>>
    /\ handle = "dropped"
    /\ cpc = "idle"
    /\ wire = <<>>
    /\ sent = <<>>
    /\ failedSends = 0
    /\ returned = <<>>

streamVars == <<taskpc, startResult, connects, senders, queue, handle, cpc,
                wire, sent, failedSends, returned>>

Init ==
    /\ RestIdle
    /\ PureIdle
    /\ taskpc = "connecting"
    /\ startResult = "pending"
    /\ connects = 0
    /\ senders = InitSenders
    /\ queue = <<>>
    /\ handle = "alive"
    /\ cpc = "idle"
    /\ wire = <<>>
    /\ sent = <<>>
    /\ failedSends = 0
    /\ returned = <<>>

\* ---------------------------------------------------------- the channel
\* variant: the event is put at the front of the buffer
Enqueue_front(q, ev) == <<ev>> \o q

\* UnboundedSender::send on an open channel: the event joins the back of
\* the buffer.
Enqueue(q, ev) == Append(q, ev)

\* `let _ = self.event_sender.send(ev)` for the events in evs (none or
\* one): accepted while the receiver exists, SendError (discarded) after
\* the receiver was dropped.  Never suspends.
Forward(evs) ==
    IF evs = <<>>
    THEN UNCHANGED <<queue, sent, failedSends>>
    ELSE IF handle = "alive"
         THEN /\ queue' = Enqueue(queue, evs[1])
              /\ sent' = Append(sent, evs[1])
              /\ UNCHANGED failedSends
         ELSE /\ failedSends' = failedSends + 1
              /\ UNCHANGED <<queue, sent>>

\* ------------------------------------------------------ the ingest task
\* The loop goes round again.
ContinueLoop == UNCHANGED taskVars

\* start returns; the spawned future completes and drops the client, and
\* with it the client's sender.
Exit(result) ==
    /\ taskpc' = "ended"
    /\ startResult' = result
    /\ senders' = senders - 1
    /\ UNCHANGED connects

\* variant: `self.handle_message(&text)?` - a decode failure returns Err
TextArm_propagate(f) ==
    /\ Forward(handle_message(f).emit)
    /\ IF handle_message(f).err THEN Exit("Err") ELSE ContinueLoop

\* variant: the close is reported as an Error event before the break
CloseArm_reports ==
    /\ Forward(<<ErrorEvent("WebSocket connection closed")>>)
    /\ Exit("Ok")

\* variant: `self.event_sender.send(..)?` - a SendError returns Err
ErrArm_propagate ==
    /\ Forward(<<ErrorEvent(TransportErrorText)>>)
    /\ IF handle = "alive" THEN ContinueLoop ELSE Exit("Err")

\* Ok(Message::Text(text)): an Err of handle_message is logged only.
TextArm(f) == Forward(handle_message(f).emit) /\ ContinueLoop

\* Ok(Message::Close(_)): break.
CloseArm == UNCHANGED <<queue, sent, failedSends>> /\ Exit("Ok")

\* Err(e): log, forward Error(e.to_string()); no break.
ErrArm == Forward(<<ErrorEvent(TransportErrorText)>>) /\ ContinueLoop

\* _ => {}
OtherArm == UNCHANGED <<queue, sent, failedSends>> /\ ContinueLoop

\* connect_async(&url).await succeeds
ConnectOk ==
    /\ taskpc = "connecting"
    /\ connects' = connects + 1
    /\ taskpc' = "reading"
    /\ UNCHANGED <<startResult, senders, queue, sent, failedSends, wire>>
    /\ UNCHANGED consumerVars
    /\ UNCHANGED offlineVars

\* variant: the failed connection is reported to the consumer as an
\* Error event before start returns
ConnectFail_reports ==
    /\ taskpc = "connecting"
    /\ connects' = connects + 1
    /\ Forward(<<ErrorEvent("IO error: connection refused")>>)
    /\ taskpc' = "ended"
    /\ startResult' = "Err"
    /\ senders' = senders - 1
    /\ UNCHANGED wire
    /\ UNCHANGED consumerVars
    /\ UNCHANGED offlineVars

\* connect_async(&url).await? fails: start returns Err
ConnectFail ==
    /\ taskpc = "connecting"
    /\ connects' = connects + 1
    /\ taskpc' = "ended"
    /\ startResult' = "Err"
    /\ senders' = senders - 1
    /\ UNCHANGED <<queue, sent, failedSends, wire>>
    /\ UNCHANGED consumerVars
    /\ UNCHANGED offlineVars

ReadText ==
    /\ taskpc = "reading"
    /\ Len(wire) < MaxFrames
    /\ \E f \in TextFrames : wire' = Append(wire, f) /\ TextArm(f)
    /\ UNCHANGED consumerVars
    /\ UNCHANGED offlineVars

ReadClose ==
    /\ taskpc = "reading"
    /\ Len(wire) < MaxFrames
    /\ wire' = Append(wire, CloseFrame)
    /\ CloseArm
    /\ UNCHANGED consumerVars
    /\ UNCHANGED offlineVars

ReadErr ==
    /\ taskpc = "reading"
    /\ Len(wire) < MaxFrames
    /\ wire' = Append(wire, ErrFrame)
    /\ ErrArm
    /\ UNCHANGED consumerVars
    /\ UNCHANGED offlineVars

ReadOther ==
    /\ taskpc = "reading"
    /\ Len(wire) < MaxFrames
    /\ wire' = Append(wire, OtherFrame)
    /\ OtherArm
    /\ UNCHANGED consumerVars
    /\ UNCHANGED offlineVars

\* variant: the end of the stream sends the task back to connect_async
ReadEnd_reconnect ==
    /\ taskpc = "reading"
    /\ taskpc' = "connecting"
    /\ UNCHANGED <<startResult, connects, senders>>
    /\ UNCHANGED <<queue, sent, failedSends, wire>>
    /\ UNCHANGED consumerVars
    /\ UNCHANGED offlineVars

\* read.next().await yields None: the while-let ends, start returns Ok(())
ReadEnd ==
    /\ taskpc = "reading"
    /\ Exit("Ok")
    /\ UNCHANGED <<queue, sent, failedSends, wire>>
    /\ UNCHANGED consumerVars
    /\ UNCHANGED offlineVars

\* --------------------------------------------------------- the consumer
\* the caller enters next_event: event_receiver.recv().await
NextEventCall ==
    /\ handle = "alive"
    /\ cpc = "idle"
    /\ Len(returned) < MaxCalls
    /\ cpc' = "waiting"
    /\ UNCHANGED <<handle, returned, queue, wire, sent, failedSends>>
    /\ UNCHANGED taskVars
    /\ UNCHANGED offlineVars

\* variant: try_recv().ok() - None as soon as the buffer is empty
NextEventReturn_try_recv ==
    /\ handle = "alive"
    /\ cpc = "waiting"
    /\ IF queue # <<>>
       THEN /\ returned' = Append(returned, SomeEvent(Head(queue)))
            /\ queue' = Tail(queue)
       ELSE /\ returned' = Append(returned, NoneEvent)
            /\ UNCHANGED queue
    /\ cpc' = "idle"
    /\ UNCHANGED <<handle, wire, sent, failedSends>>
    /\ UNCHANGED taskVars
    /\ UNCHANGED offlineVars

\* recv() completes: the front event if one is buffered, None if the
\* buffer is empty and every sender is gone; otherwise it stays suspended.
NextEventReturn ==
    /\ handle = "alive"
    /\ cpc = "waiting"
    /\ IF queue # <<>>
       THEN /\ returned' = Append(returned, SomeEvent(Head(queue)))
            /\ queue' = Tail(queue)
       ELSE /\ senders = 0
            /\ returned' = Append(returned, NoneEvent)
            /\ UNCHANGED queue
    /\ cpc' = "idle"
    /\ UNCHANGED <<handle, wire, sent, failedSends>>
    /\ UNCHANGED taskVars
    /\ UNCHANGED offlineVars

\* The MarketDataStream is dropped: the receiver goes (buffered events
\* are discarded, later sends fail) and the JoinHandle goes, which
\* detaches the task.
DropHandle ==
    /\ handle = "alive"
    /\ cpc = "idle"
    /\ handle' = "dropped"
    /\ queue' = <<>>
    /\ UNCHANGED <<cpc, returned, wire, sent, failedSends>>
    /\ UNCHANGED taskVars
    /\ UNCHANGED offlineVars

Next ==
    \/ ConnectOk
    \/ ConnectFail
    \/ ReadText
    \/ ReadClose
    \/ ReadErr
    \/ ReadOther
    \/ ReadEnd
    \/ NextEventCall
    \/ NextEventReturn
    \/ DropHandle

Spec == Init /\ [][Next]_vars

\* recv() is woken by a send and by the drop of the last sender, so a
\* return that stays possible is taken.
FairSpec == Spec /\ WF_vars(NextEventReturn)

\* ------------------------------------------------- vocabulary of the claims
IsPrefix(a, b) == Len(a) <= Len(b) /\ \A i \in 1..Len(a) : a[i] = b[i]

\* the events next_event has returned, in order
DeliveredEvents ==
    LET rs == SelectSeq(returned, LAMBDA r : r.some)
    IN  [i \in 1..Len(rs) |-> rs[i].ev]

ErrorEventCount(evs) == Cardinality({i \in 1..Len(evs) : evs[i].tag = "Error"})
ErrItemCount(items) == Cardinality({i \in 1..Len(items) : items[i].kind = "err"})

\* a text frame that fails to decode
Malformed(f) == f.kind = "text" /\ handle_message(f).err
\* a text frame that decodes to a Ticker
WellFormedTicker(f) == f.kind = "text" /\ ~handle_message(f).err /\ handle_message(f).emit # <<>>

NoneReturned == \E i \in 1..Len(returned) : ~returned[i].some

\* ------------------------------------------------------------------- C1
\* C1: a transport-level read error is forwarded as one Error event and
\* ends the read loop: no item of the stream is read after the error, and
\* at most one Error event is ever enqueued.
C1_TransportErrorEndsLoop ==
    \A i \in 1..Len(wire) :
        wire[i].kind = "err" =>
            /\ i = Len(wire)
            /\ ErrorEventCount(sent) <= 1

\* ------------------------------------------------------------------- C2
\* C2: whenever a text frame fails to decode, an Error event for it is on
\* the event queue's history (the consumer still holding the handle).
C2_DecodeFailureEnqueuesError ==
    handle = "alive" =>
        \A i \in 1..Len(wire) :
            Malformed(wire[i]) => \E j \in 1..Len(sent) : sent[j].tag = "Error"

\* ------------------------------------------------------------------- C3
\* C3: once the handle is dropped the ingest task reads no further frame
\* and does not go on running.
C3_DropCancelsTask ==
    [][handle = "dropped" => (wire' = wire /\ taskpc' = taskpc)]_vars

\* ------------------------------------------------------------------- C4
\* C4: after the ingest task has ended, a pending next_event call always
\* returns, and with the queue drained what it returns is None.
C4_NoneAfterTaskEnds ==
    /\ [][(taskpc = "ended" /\ cpc = "waiting" /\ queue = <<>> /\ cpc' = "idle")
            => returned' = Append(returned, NoneEvent)]_vars
    /\ (taskpc = "ended" /\ cpc = "waiting") ~> (cpc = "idle")

\* the task has ended, queued events were delivered and then None came
C4_Witness ==
    /\ taskpc = "ended"
    /\ Len(returned) >= 2
    /\ returned[Len(returned) - 1].some
    /\ ~returned[Len(returned)].some

\* ------------------------------------------------------------------- C5
\* C5: the events returned by next_event are a prefix of the events the
\* ingest loop enqueued, in the same order.
C5_DeliveredIsPrefixOfSent == IsPrefix(DeliveredEvents, sent)

\* two different events delivered while a third is still queued
C5_Witness ==
    /\ Len(DeliveredEvents) >= 2
    /\ DeliveredEvents[1] # DeliveredEvents[2]
    /\ Len(sent) > Len(DeliveredEvents)

\* ------------------------------------------------------------------- C6
\* C6: a text frame that fails to decode leaves the loop reading, and a
\* well-formed ticker frame read after a malformed one, with no close or
\* transport error before it, has its Ticker event enqueued.
C6_DecodeFailureKeepsLoop ==
    /\ [][(wire' # wire /\ Malformed(wire'[Len(wire')])) =>
            (taskpc' = "reading" /\ startResult' = "pending")]_vars
    /\ [](handle = "alive" =>
           \A j \in 1..Len(wire) :
               ( /\ WellFormedTicker(wire[j])
                 /\ \E i \in 1..(j - 1) : Malformed(wire[i])
                 /\ \A k \in 1..(j - 1) : wire[k].kind \notin {"close", "err"} )
               => \E n \in 1..Len(sent) : sent[n] = handle_message(wire[j]).emit[1])

\* a malformed frame was read and a later ticker frame was enqueued
C6_Witness ==
    /\ handle = "alive"
    /\ Len(wire) >= 2
    /\ Malformed(wire[1])
    /\ WellFormedTicker(wire[Len(wire)])
    /\ Len(sent) >= 1
    /\ sent[Len(sent)] = handle_message(wire[Len(wire)]).emit[1]

\* ------------------------------------------------------------------- C7
\* C7: a close frame is the last item read, it ends the task with start
\* returning Ok, and it adds no Error event: Error events are never more
\* than the transport errors read.
C7_CloseEndsLoopCleanly ==
    /\ \A i \in 1..Len(wire) :
           wire[i].kind = "close" =>
               (i = Len(wire) /\ taskpc = "ended" /\ startResult = "Ok")
    /\ ErrorEventCount(sent) <= ErrItemCount(wire)

\* a close frame was read after a frame that produced an event
C7_Witness ==
    /\ Len(wire) >= 2
    /\ wire[Len(wire)].kind = "close"
    /\ Len(sent) >= 1
    /\ taskpc = "ended"

\* ------------------------------------------------------------------- C8
\* C8: a send that fails because the receiver is gone leaves the loop
\* reading with no result returned, and while the loop is reading the
\* next read is possible whatever the consumer and the queue are doing.
C8_FailedSendIsIgnored ==
    /\ [][failedSends' > failedSends =>
            (taskpc' = "reading" /\ startResult' = "pending")]_vars
    /\ []((taskpc = "reading" /\ Len(wire) < MaxFrames) => ENABLED (ReadText \/ ReadErr))

\* two sends failed: the loop read on after the first failure
C8_Witness ==
    /\ handle = "dropped"
    /\ failedSends >= 2
    /\ taskpc = "reading"

\* ------------------------------------------------------------------- C9
\* C9: the client connects at most once, and once the task has ended it
\* stays ended: no further connect, read or enqueued event.
C9_EndedIsPermanent ==
    /\ [](connects <= 1)
    /\ [][taskpc = "ended" =>
            (taskpc' = "ended" /\ connects' = connects /\ sent' = sent /\ wire' = wire)]_vars

\* the loop ended after enqueuing, and the consumer is still served
C9_Witness ==
    /\ taskpc = "ended"
    /\ connects = 1
    /\ Len(sent) >= 1
    /\ Len(wire) >= 1
    /\ cpc = "waiting"

\* ------------------------------------------------------------------ C10
\* C10: next_event has returned None only if the task has ended and every
\* enqueued event was returned before that None; no event follows a None.
C10_NoneOnlyAfterEndAndDrain ==
    NoneReturned =>
        /\ taskpc = "ended"
        /\ senders = 0
        /\ DeliveredEvents = sent
        /\ \A i \in 1..Len(returned) : \A j \in 1..Len(returned) :
               (i < j /\ ~returned[i].some) => ~returned[j].some

\* events were returned, then None, then None again
C10_Witness ==
    /\ Len(returned) >= 3
    /\ returned[1].some
    /\ ~returned[Len(returned) - 1].some
    /\ ~returned[Len(returned)].some

\* ======================================================================
\* trading/client.rs: the Signer and the REST Trading Client
\* ======================================================================
\* Strings are sequences of tokens; concatenation is \o.

\* str::as_bytes of the parameter names: String's Ord compares these.
Utf8(str) ==
    CASE str = "orderId" -> <<111, 114, 100, 101, 114, 73, 100>>
      [] str = "price" -> <<112, 114, 105, 99, 101>>
      [] str = "quantity" -> <<113, 117, 97, 110, 116, 105, 116, 121>>
      [] str = "side" -> <<115, 105, 100, 101>>
      [] str = "symbol" -> <<115, 121, 109, 98, 111, 108>>
      [] str = "timeInForce" -> <<116, 105, 109, 101, 73, 110, 70, 111, 114, 99, 101>>
      [] str = "timestamp" -> <<116, 105, 109, 101, 115, 116, 97, 109, 112>>
      [] str = "type" -> <<116, 121, 112, 101>>

\* lexicographic order of byte sequences
BytesLess(x, y) ==
    \E i \in 1..(Len(x) + 1) :
        /\ \A j \in 1..(i - 1) : j <= Len(y) /\ x[j] = y[j]
        /\ \/ (i = Len(x) + 1 /\ Len(y) >= i)
           \/ (i <= Len(x) /\ i <= Len(y) /\ x[i] < y[i])

\* <String as Ord>::cmp(a, b) == Less
StrLess(a, b) == BytesLess(Utf8(a), Utf8(b))

\* One step of the stable sort: k goes behind every key that is not
\* greater than it.
RECURSIVE InsertByKey(_, _)
InsertByKey(k, sorted) ==
    IF sorted = <<>> THEN <<k>>
    ELSE IF StrLess(k, Head(sorted)) THEN <<k>> \o sorted
         ELSE <<Head(sorted)>> \o InsertByKey(k, Tail(sorted))

\* variant: the sort is left out
SortByKey_unsorted(keys) == keys

\* sorted_params.sort_by_key(|&(k, _)| k)
RECURSIVE SortByKey(_)
SortByKey(keys) ==
    IF keys = <<>> THEN <<>>
    ELSE InsertByKey(keys[Len(keys)], SortByKey(SubSeq(keys, 1, Len(keys) - 1)))

\* .map(|(k, v)| format!("{}={}", k, v)).collect().join("&")
RECURSIVE JoinPairs(_, _)
JoinPairs(params, keys) ==
    IF keys = <<>> THEN <<>>
    ELSE <<Head(keys), "=", params[Head(keys)]>>
         \o (IF Len(keys) = 1 THEN <<>> ELSE <<"&">> \o JoinPairs(params, Tail(keys)))

\* build_query_string: iter is the order in which params.iter() visits
\* the keys of the HashMap.
build_query_string(params, iter) == JoinPairs(params, SortByKey(iter))

\* A piece of a string on the wire: literal text, or the hex digest of an
\* HMAC-SHA256, kept as the term (key, message) it was computed from.
Lit(text) == [kind |-> "lit", text |-> text, key |-> "", over |-> <<>>]
Lits(tokens) == [i \in 1..Len(tokens) |-> Lit(tokens[i])]

\* sign: hex::encode(HMAC-SHA256(secret_key, query_string))
sign(secret_key, query_string) ==
    [kind |-> "hmac", text |-> "", key |-> secret_key, over |-> query_string]

\* ------------------------------------------------------------ the client
\* TestnetTrader::new("test_api_key", "test_secret_key")
ApiKey == "test_api_key"
SecretKey == "test_secret_key"
BaseUrl == "https://testnet.binance.vision"

\* ------------------------------------------------- inputs of the calls
Symbols == {"BTCUSDT"}
Sides == {"Buy", "Sell"}
Quantities == {"0.001", "1.5"}
Prices == {"30000.129"}
\* order_id: u64
OrderIds == {12345}
\* chrono::Utc::now().timestamp_millis() as u64 (shortened)
Timestamps == {1640, 1641}

\* u64::to_string
U64ToString(n) ==
    CASE n = 1640 -> "1640"
      [] n = 1641 -> "1641"
      [] n = 12345 -> "12345"

\* match side { Buy => "BUY", Sell => "SELL" }
SideText(side) == IF side = "Buy" THEN "BUY" ELSE "SELL"

\* format!("{:.8}", quantity)
Fmt8(quantity) ==
    CASE quantity = "0.001" -> "0.00100000"
      [] quantity = "1.5" -> "1.50000000"

\* format!("{:.2}", price)
Fmt2(price) ==
    CASE price = "30000.129" -> "30000.13"

Reverse(seq) == [i \in 1..Len(seq) |-> seq[Len(seq) + 1 - i]]
Rotate(seq, n) == SubSeq(seq, n + 1, Len(seq)) \o SubSeq(seq, 1, n)

\* Iteration orders of a HashMap whose keys were inserted in the order
\* keys: the rotations of that order and its reverse.
IterOrders(keys) ==
    {Rotate(keys, n) : n \in 0..(Len(keys) - 1)} \cup {Reverse(keys)}

\* ------------------------------------------------------------ responses
\* A response body: its text, whether it is JSON, the type it
\* deserializes into, and its "price" member (a string, or Missing).
Body(text, json, shape, price) == [text |-> text, json |-> json, shape |-> shape, price |-> price]

AccountBody == Body("{balances:[],canTrade:true,canWithdraw:false,canDeposit:false}", TRUE, "account", Missing)
OrderBody == Body("{symbol:BTCUSDT,orderId:12345,...,status:NEW}", TRUE, "order", "30000.13")
OrdersBody == Body("[]", TRUE, "orders", Missing)
PriceBody == Body("{symbol:BTCUSDT,price:50000.00}", TRUE, "price", "50000.00")
BadPriceBody == Body("{symbol:BTCUSDT,price:abc}", TRUE, "price", "abc")
ErrorBody == Body("{code:-2010,msg:insufficient balance}", TRUE, "error", Missing)
HtmlBody == Body("<html>502 Bad Gateway</html>", FALSE, "none", Missing)

Bodies == {AccountBody, OrderBody, OrdersBody, PriceBody, BadPriceBody, ErrorBody, HtmlBody}
Statuses == {200, 400, 503}

\* response.status().is_success()
IsSuccess(status) == status >= 200 /\ status < 300

\* readable = FALSE: reading the body fails (text().await / json().await
\* returns a transport error).
Response(status, readable, b) ==
    [arrived |-> TRUE, status |-> status, readable |-> readable,
     body |-> b.text, json |-> b.json, shape |-> b.shape, price |-> b.price]

\* serde_json::from_str::<T> / response.json::<T>() succeeds
Deserializes(shape, resp) == resp.json /\ resp.shape = shape

\* -------------------------------------------------------------- results
OkValue(text) == [ok |-> TRUE, kind |-> "value", msg |-> <<>>, value |-> text, num |-> 0]
OkNumber(n) == [ok |-> TRUE, kind |-> "value", msg |-> <<>>, value |-> "", num |-> n]
Failure(kind, msg) == [ok |-> FALSE, kind |-> kind, msg |-> msg, value |-> "", num |-> 0]

\* reqwest::Error of send() and of reading the body
TransportFailure == Failure("transport", <<"error sending request">>)
BodyReadFailure == Failure("transport", <<"error reading response body">>)
\* reqwest::Error of response.json(): the serde error, not the body
DecodeFailure == Failure("decode", <<"error decoding response body">>)

\* if !response.status().is_success() { let error_text = response.text().await?;
\*   return Err(format!("<prefix>{}", error_text).into()); }
ApiFailure(prefix, resp) ==
    IF ~resp.readable THEN BodyReadFailure
    ELSE Failure("api", <<prefix, resp.body>>)

\* response.text().await?; serde_json::from_str(..).map_err(|e|
\*   format!("<prefix>{}. Response was: {}", e, response_text))?
FromText(shape, prefix, resp) ==
    IF ~resp.readable THEN BodyReadFailure
    ELSE IF Deserializes(shape, resp) THEN OkValue(resp.body)
    ELSE Failure("parse", <<prefix, "<serde error>", ". Response was: ", resp.body>>)

\* response.json().await?
FromJson(shape, resp) ==
    IF ~resp.readable THEN BodyReadFailure
    ELSE IF Deserializes(shape, resp) THEN OkValue(resp.body)
    ELSE DecodeFailure

\* variant: the status check is left out, as in get_current_price
finish_cancel_order_unchecked(resp) == FromJson("order", resp)

\* what each operation returns for a response
finish_get_account_info(resp) ==
    IF ~IsSuccess(resp.status) THEN ApiFailure("API Error: ", resp)
    ELSE FromText("account", "Failed to parse account info: ", resp)

finish_place_market_order(resp) ==
    IF ~IsSuccess(resp.status) THEN ApiFailure("Order Error: ", resp)
    ELSE FromJson("order", resp)

finish_place_limit_order(resp) ==
    IF ~IsSuccess(resp.status) THEN ApiFailure("Order Error: ", resp)
    ELSE FromJson("order", resp)

finish_get_open_orders(resp) ==
    IF ~IsSuccess(resp.status) THEN ApiFailure("API Error: ", resp)
    ELSE FromText("orders", "Failed to parse open orders: ", resp)

finish_cancel_order(resp) ==
    IF ~IsSuccess(resp.status) THEN ApiFailure("Cancel Error: ", resp)
    ELSE FromJson("order", resp)

\* get_current_price: no status check; the body is read as a JSON Value
finish_get_current_price(resp) ==
    IF ~resp.readable THEN BodyReadFailure
    ELSE IF ~resp.json THEN DecodeFailure
    ELSE IF resp.price = Missing THEN Failure("price", <<"Could not parse price">>)
    ELSE IF ~ParseF64(resp.price).ok THEN Failure("price", <<"invalid float literal">>)
    ELSE OkNumber(ParseF64(resp.price).val)

Finish(op, resp) ==
    CASE op = "get_account_info" -> finish_get_account_info(resp)
      [] op = "place_market_order" -> finish_place_market_order(resp)
      [] op = "place_limit_order" -> finish_place_limit_order(resp)
      [] op = "get_open_orders" -> finish_get_open_orders(resp)
      [] op = "cancel_order" -> finish_cancel_order(resp)
      [] op = "get_current_price" -> finish_get_current_price(resp)

\* ------------------------------------------------------------- requests
Header(name, value) == [name |-> name, value |-> value]

\* variant: the header is given the secret key
SignedGet_secret_header(endpoint, params, iter) ==
    LET query_string == build_query_string(params, iter)
        signature == sign(SecretKey, query_string)
    IN  [method |-> "GET",
         url |-> <<Lit(BaseUrl), Lit(endpoint), Lit("?")>> \o Lits(query_string)
                 \o <<Lit("&signature="), signature>>,
         headers |-> {Header("X-MBX-APIKEY", SecretKey)},
         body |-> <<>>]

\* get_account_info, get_open_orders: the signed query string in the URL
SignedGet(endpoint, params, iter) ==
    LET query_string == build_query_string(params, iter)
        signature == sign(SecretKey, query_string)
    IN  [method |-> "GET",
         url |-> <<Lit(BaseUrl), Lit(endpoint), Lit("?")>> \o Lits(query_string)
                 \o <<Lit("&signature="), signature>>,
         headers |-> {Header("X-MBX-APIKEY", ApiKey)},
         body |-> <<>>]

\* variant: the signature is computed before the timestamp is inserted
SignedForm_signs_early(method, endpoint, params, iter) ==
    LET query_string == build_query_string(params, iter)
        early == SelectSeq(iter, LAMBDA k : k # "timestamp")
        signature == sign(SecretKey, build_query_string(params, early))
    IN  [method |-> method,
         url |-> <<Lit(BaseUrl), Lit(endpoint)>>,
         headers |-> {Header("X-MBX-APIKEY", ApiKey),
                      Header("Content-Type", "application/x-www-form-urlencoded")},
         body |-> Lits(query_string) \o <<Lit("&signature="), signature>>]

\* place_market_order, place_limit_order, cancel_order: the signed query
\* string as a form body
SignedForm(method, endpoint, params, iter) ==
    LET query_string == build_query_string(params, iter)
        signature == sign(SecretKey, query_string)
    IN  [method |-> method,
         url |-> <<Lit(BaseUrl), Lit(endpoint)>>,
         headers |-> {Header("X-MBX-APIKEY", ApiKey),
                      Header("Content-Type", "application/x-www-form-urlencoded")},
         body |-> Lits(query_string) \o <<Lit("&signature="), signature>>]

\* get_current_price: unsigned
PriceRequest(symbol) ==
    [method |-> "GET",
     url |-> <<Lit(BaseUrl), Lit("/api/v3/ticker/price?symbol="), Lit(symbol)>>,
     headers |-> {},
     body |-> <<>>]

\* ------------------------------------------------------- REST actions
\* the request is handed to client.send()
Issue(op, params, iter, req) ==
    /\ rpc' = "sent"
    /\ rop' = op
    /\ rparams' = params
    /\ riter' = iter
    /\ rreq' = req
    /\ UNCHANGED <<rresp, rresult>>
    /\ UNCHANGED <<streamVars, pureVars>>

Call_get_account_info ==
    /\ rpc = "idle"
    /\ \E ts \in Timestamps :
           LET params == ("timestamp" :> U64ToString(ts))
           IN  \E iter \in IterOrders(<<"timestamp">>) :
                   Issue("get_account_info", params, iter,
                         SignedGet("/api/v3/account", params, iter))

Call_place_market_order ==
    /\ rpc = "idle"
    /\ \E symbol \in Symbols, side \in Sides, quantity \in Quantities, ts \in Timestamps :
           LET params == ("symbol" :> symbol) @@ ("side" :> SideText(side))
                         @@ ("type" :> "MARKET") @@ ("quantity" :> Fmt8(quantity))
                         @@ ("timestamp" :> U64ToString(ts))
           IN  \E iter \in IterOrders(<<"symbol", "side", "type", "quantity", "timestamp">>) :
                   Issue("place_market_order", params, iter,
                         SignedForm("POST", "/api/v3/order", params, iter))

Call_place_limit_order ==
    /\ rpc = "idle"
    /\ \E symbol \in Symbols, side \in Sides, quantity \in Quantities,
          price \in Prices, ts \in Timestamps :
           LET params == ("symbol" :> symbol) @@ ("side" :> SideText(side))
                         @@ ("type" :> "LIMIT") @@ ("timeInForce" :> "GTC")
                         @@ ("quantity" :> Fmt8(quantity)) @@ ("price" :> Fmt2(price))
                         @@ ("timestamp" :> U64ToString(ts))
           IN  \E iter \in IterOrders(<<"symbol", "side", "type", "timeInForce",
                                        "quantity", "price", "timestamp">>) :
                   Issue("place_limit_order", params, iter,
                         SignedForm("POST", "/api/v3/order", params, iter))

Call_get_open_orders ==
    /\ rpc = "idle"
    /\ \E ts \in Timestamps :
           \/ \E symbol \in Symbols :
                  LET params == ("symbol" :> symbol) @@ ("timestamp" :> U64ToString(ts))
                  IN  \E iter \in IterOrders(<<"symbol", "timestamp">>) :
                          Issue("get_open_orders", params, iter,
                                SignedGet("/api/v3/openOrders", params, iter))
           \/ LET params == ("timestamp" :> U64ToString(ts))
              IN  \E iter \in IterOrders(<<"timestamp">>) :
                      Issue("get_open_orders", params, iter,
                            SignedGet("/api/v3/openOrders", params, iter))

Call_cancel_order ==
    /\ rpc = "idle"
    /\ \E symbol \in Symbols, order_id \in OrderIds, ts \in Timestamps :
           LET params == ("symbol" :> symbol) @@ ("orderId" :> U64ToString(order_id))
                         @@ ("timestamp" :> U64ToString(ts))
           IN  \E iter \in IterOrders(<<"symbol", "orderId", "timestamp">>) :
                   Issue("cancel_order", params, iter,
                         SignedForm("DELETE", "/api/v3/order", params, iter))

Call_get_current_price ==
    /\ rpc = "idle"
    /\ \E symbol \in Symbols :
           Issue("get_current_price", <<>>, <<>>, PriceRequest(symbol))

\* send().await? fails: no response
SendFails ==
    /\ rpc = "sent"
    /\ rpc' = "done"
    /\ rresult' = TransportFailure
    /\ UNCHANGED <<rop, rparams, riter, rreq, rresp>>
    /\ UNCHANGED <<streamVars, pureVars>>

\* a response arrives and the operation runs to its return
Receive ==
    /\ rpc = "sent"
    /\ \E status \in Statuses, readable \in BOOLEAN, b \in Bodies :
           /\ rresp' = Response(status, readable, b)
           /\ rresult' = Finish(rop, Response(status, readable, b))
    /\ rpc' = "done"
    /\ UNCHANGED <<rop, rparams, riter, rreq>>
    /\ UNCHANGED <<streamVars, pureVars>>

\* the caller has the result; the client is ready for the next call
Return ==
    /\ rpc = "done"
    /\ rpc' = "idle"
    /\ rop' = "none"
    /\ rparams' = <<>>
    /\ riter' = <<>>
    /\ rreq' = NoRequest
    /\ rresp' = NoResponse
    /\ rresult' = NoResult
    /\ UNCHANGED <<streamVars, pureVars>>

RestInit == StreamIdle /\ PureIdle /\ RestIdle

RestNext ==
    \/ Call_get_account_info
    \/ Call_place_market_order
    \/ Call_place_limit_order
    \/ Call_get_open_orders
    \/ Call_cancel_order
    \/ Call_get_current_price
    \/ SendFails
    \/ Receive
    \/ Return

RestSpec == RestInit /\ [][RestNext]_vars

\* ------------------------------------------- vocabulary of the REST claims
SignedOps == {"get_account_info", "place_market_order", "place_limit_order",
              "get_open_orders", "cancel_order"}

\* the type each signed operation deserializes a success body into
ExpectedShape(op) ==
    CASE op = "get_account_info" -> "account"
      [] op = "get_open_orders" -> "orders"
      [] OTHER -> "order"

\* the failure message contains the text
Contains(msg, text) == \E i \in 1..Len(msg) : msg[i] = text

\* a call has returned after a response whose body could be read
Answered == rpc = "done" /\ rresp.arrived /\ rresp.readable

\* the parameter string of a signed request: behind the '?' of the URL of a
\* GET, the body of a POST or DELETE
WireParams(req) ==
    IF req.method = "GET" THEN SubSeq(req.url, 4, Len(req.url)) ELSE req.body

\* ------------------------------------------------------------------ C11
\* C11: a signed operation that got a non-success status returns a
\* failure, never a value, and the failure's message contains the
\* response body text.
C11_NonSuccessCarriesBody ==
    (Answered /\ rop \in SignedOps /\ rresp.status \notin 200..299) =>
        (~rresult.ok /\ Contains(rresult.msg, rresp.body))

\* cancel_order was refused with an error payload
C11_Witness ==
    /\ Answered
    /\ rop = "cancel_order"
    /\ rresp.status = 400
    /\ rresp.body = ErrorBody.text
    /\ rresult.kind = "api"
    /\ rresult.msg = <<"Cancel Error: ", ErrorBody.text>>

\* ------------------------------------------------------------------ C12
\* C12: get_current_price, answered with a non-success status, returns a
\* failure whose message contains the response body text.
C12_PriceNonSuccessCarriesBody ==
    (Answered /\ rop = "get_current_price" /\ rresp.status \notin 200..299) =>
        (~rresult.ok /\ Contains(rresult.msg, rresp.body))

\* ------------------------------------------------------------------ C13
\* C13: a signed operation that got a success status with a body that
\* does not deserialize into its type returns a parse failure whose
\* message contains the body text.
C13_ParseFailureCarriesBody ==
    ( /\ Answered
      /\ rop \in SignedOps
      /\ rresp.status \in 200..299
      /\ ~(rresp.json /\ rresp.shape = ExpectedShape(rop)) )
    => (~rresult.ok /\ Contains(rresult.msg, rresp.body))

\* ------------------------------------------------------------------ C14
\* C14: the parameter string of every signed request is the canonical
\* query string of the call's parameters, then "&signature=", then the
\* signature under the secret key of exactly the string before it; the
\* parameters contain timestamp.
C14_SignatureCoversWireString ==
    (rpc \in {"sent", "done"} /\ rop \in SignedOps) =>
        LET w == WireParams(rreq)
            n == Len(w)
            q == SubSeq(w, 1, n - 2)
        IN  /\ n >= 5
            /\ w[n - 1] = Lit("&signature=")
            /\ w[n].kind = "hmac"
            /\ w[n].key = SecretKey
            /\ Lits(w[n].over) = q
            /\ q = Lits(build_query_string(rparams, riter))
            /\ "timestamp" \in DOMAIN rparams
            /\ \E i \in 1..(n - 2) : w[i] = Lit("timestamp")

\* a limit order is on the wire, its HashMap iterated out of key order
C14_Witness ==
    /\ rpc = "sent"
    /\ rop = "place_limit_order"
    /\ riter[1] = "timestamp"
    /\ rreq.body[1] = Lit("price")
    /\ Len(rreq.body) = 29

\* ------------------------------------------------------------------ C16
\* C16: no literal part of a request (URL, headers, body) is the secret
\* key, and every signed request has the header X-MBX-APIKEY with the
\* client's API key.
C16_SecretStaysOffWire ==
    rpc \in {"sent", "done"} =>
        /\ \A i \in 1..Len(rreq.url) : rreq.url[i].text # SecretKey
        /\ \A i \in 1..Len(rreq.body) : rreq.body[i].text # SecretKey
        /\ \A h \in rreq.headers : h.value # SecretKey /\ h.name # SecretKey
        /\ rop \in SignedOps => Header("X-MBX-APIKEY", ApiKey) \in rreq.headers

\* a signed GET is out, signed with the secret key
C16_Witness ==
    /\ rpc = "sent"
    /\ rop = "get_open_orders"
    /\ rreq.method = "GET"
    /\ rreq.url[Len(rreq.url)].key = SecretKey
    /\ Cardinality(rreq.headers) = 1

\* ======================================================================
\* Pure functions, applied once to an input drawn from a bounded set
\* ======================================================================
\* largest number of entries of a parameter mapping
MaxParams == 3
\* largest number of symbols handed to BinanceClient::new
MaxSymbols == 3

\* ------------------------------------------- inputs: parameter mappings
ParamKeys == {"price", "side", "symbol", "timeInForce", "timestamp", "type"}
ParamValues == {"BTCUSDT", "BUY"}

\* the orders in which a HashMap with key set K can iterate
Orders(K) ==
    {f \in [1..Cardinality(K) -> K] :
        \A i, j \in 1..Cardinality(K) : i # j => f[i] # f[j]}

\* ------------------------------------------------- inputs: text frames
Channels == {NoChannel, TickerChannel, TradeChannel, WindowChannel}
EventTypes == {Missing, "24hrTicker", "trade"}
PayloadSymbols == {Missing, "BTCUSDT"}
PayloadPrices == {Missing, "50000.00", "abc"}
PayloadVolumes == {Missing, "1000.0", "abc"}
PayloadTimes == {NoU64, 1640}

Payloads ==
    {Payload(s, c, v, E) : s \in PayloadSymbols, c \in PayloadPrices,
                           v \in PayloadVolumes, E \in PayloadTimes}

\* every JSON object of the model, and one text that is not JSON
AnyTextFrames ==
    {TextFrame(TRUE, st, e, p) : st \in Channels, e \in EventTypes, p \in Payloads}
        \cup {InvalidJson}

\* the payload P at top level, carrying "e":"24hrTicker"
SingleEnvelope(P) == TextFrame(TRUE, NoChannel, "24hrTicker", P)
\* {"stream":"<sym>@ticker","data":P}
CombinedEnvelope(sym, P) == TextFrame(TRUE, <<sym, "@ticker">>, Missing, P)

\* --------------------------------------------------- build_stream_url
StreamSymbols == {"BTCUSDT", "ETHUSDT", "bnbusdt"}

\* str::to_lowercase
ToLowercase(str) ==
    CASE str = "BTCUSDT" -> "btcusdt"
      [] str = "ETHUSDT" -> "ethusdt"
      [] str = "bnbusdt" -> "bnbusdt"

SingleUrlPrefix == "wss://stream.testnet.binance.vision/ws/"
CombinedUrlPrefix == "wss://stream.testnet.binance.vision/stream?streams="

\* symbols.iter().map(|s| format!("{}@ticker", s.to_lowercase())).join("/")
RECURSIVE JoinStreams(_)
JoinStreams(symbols) ==
    IF symbols = <<>> THEN <<>>
    ELSE <<ToLowercase(Head(symbols)), "@ticker">>
         \o (IF Len(symbols) = 1 THEN <<>> ELSE <<"/">> \o JoinStreams(Tail(symbols)))

\* variant: any non-empty list takes the single-stream branch
IsSingle_nonempty(symbols) == Len(symbols) >= 1

\* self.symbols.len() == 1
IsSingle(symbols) == Len(symbols) = 1

\* build_stream_url, as a sequence of tokens
build_stream_url(symbols) ==
    IF IsSingle(symbols)
    THEN <<SingleUrlPrefix, ToLowercase(symbols[1]), "@ticker">>
    ELSE <<CombinedUrlPrefix>> \o JoinStreams(symbols)

\* all sequences over S of length at most n
SeqsUpTo(S, n) == UNION {[1..k -> S] : k \in 0..n}

\* ------------------------------------------------------------- actions
\* the same mapping canonicalized twice, the HashMap iterating in the
\* order iter the first time and in the order again the second time
Apply_build_query_string ==
    /\ pfun = "none"
    /\ \E K \in {K \in SUBSET ParamKeys : Cardinality(K) <= MaxParams} :
       \E params \in [K -> ParamValues] :
       \E iter \in Orders(K), again \in Orders(K) :
          /\ pfun' = "build_query_string"
          /\ pin' = [params |-> params, iter |-> iter, again |-> again]
          /\ pout' = <<build_query_string(params, iter), build_query_string(params, again)>>
    /\ UNCHANGED <<streamVars, restVars, signed>>

Apply_handle_message ==
    /\ pfun = "none"
    /\ \E f \in AnyTextFrames :
          /\ pfun' = "handle_message"
          /\ pin' = f
          /\ pout' = handle_message(f)
    /\ UNCHANGED <<streamVars, restVars, signed>>

\* one payload, decoded once in each envelope
Apply_handle_message_both ==
    /\ pfun = "none"
    /\ \E P \in Payloads, sym \in {"btcusdt", "ethusdt"} :
          /\ pfun' = "handle_message_both"
          /\ pin' = [P |-> P, sym |-> sym]
          /\ pout' = <<handle_message(SingleEnvelope(P)),
                       handle_message(CombinedEnvelope(sym, P))>>
    /\ UNCHANGED <<streamVars, restVars, signed>>

Apply_build_stream_url ==
    /\ pfun = "none"
    /\ \E symbols \in SeqsUpTo(StreamSymbols, MaxSymbols) :
          /\ pfun' = "build_stream_url"
          /\ pin' = symbols
          /\ pout' = build_stream_url(symbols)
    /\ UNCHANGED <<streamVars, restVars, signed>>

\* ------------------------------------------------------------- sign
\* number of sign calls made
MaxSigns == 3

\* TestnetTrader instances: two created with the same secret key, one
\* with another
Traders == {"trader1", "trader2", "trader3"}
SecretOf(t) == IF t = "trader3" THEN "other_secret_key" ELSE SecretKey

\* query strings handed to sign
SignMessages ==
    {<<>>,
     <<"symbol", "=", "BTCUSDT", "&", "side", "=", "BUY">>,
     <<"symbol", "=", "BTCUSDT", "&", "side", "=", "SELL">>}

\* what trader t has signed so far, concatenated
RECURSIVE AbsorbedBy(_, _)
AbsorbedBy(t, log) ==
    IF log = <<>> THEN <<>>
    ELSE (IF Head(log).trader = t THEN Head(log).msg ELSE <<>>) \o AbsorbedBy(t, Tail(log))

\* variant: the Mac is created once per trader and updated by every
\* call, so a signature covers everything the trader signed before
Apply_sign_keeps_mac ==
    /\ pfun \in {"none", "sign"}
    /\ Len(signed) < MaxSigns
    /\ \E t \in Traders, m \in SignMessages :
          LET sig == sign(SecretOf(t), AbsorbedBy(t, signed) \o m)
          IN  /\ pfun' = "sign"
              /\ pin' = [trader |-> t, msg |-> m]
              /\ pout' = sig
              /\ signed' = Append(signed, [trader |-> t, msg |-> m, sig |-> sig])
    /\ UNCHANGED <<streamVars, restVars>>

\* trader.sign(query_string): a fresh Mac from self.secret_key, updated
\* with the message, finalized and hex-encoded
Apply_sign ==
    /\ pfun \in {"none", "sign"}
    /\ Len(signed) < MaxSigns
    /\ \E t \in Traders, m \in SignMessages :
          LET sig == sign(SecretOf(t), m)
          IN  /\ pfun' = "sign"
              /\ pin' = [trader |-> t, msg |-> m]
              /\ pout' = sig
              /\ signed' = Append(signed, [trader |-> t, msg |-> m, sig |-> sig])
    /\ UNCHANGED <<streamVars, restVars>>

PureInit == StreamIdle /\ RestIdle /\ PureIdle

PureNext ==
    \/ Apply_build_query_string
    \/ Apply_handle_message
    \/ Apply_handle_message_both
    \/ Apply_build_stream_url
    \/ Apply_sign

PureSpec == PureInit /\ [][PureNext]_vars

\* ----------------------------------------------------------------------
\* the keys of a canonical string, in the order they appear
KeysOf(out) == [i \in 1..((Len(out) + 1) \div 4) |-> out[4 * i - 3]]

\* C15: build_query_string lists every key of the mapping once, in
\* non-decreasing byte-wise order, as key=value pairs joined by "&", and
\* the same mapping iterated in another order gives the identical string.
C15_CanonicalStringIsSortedAndOrderFree ==
    pfun = "build_query_string" =>
        LET out == pout[1]
            n == Cardinality(DOMAIN pin.params)
            ks == KeysOf(out)
        IN  /\ Len(out) = IF n = 0 THEN 0 ELSE 4 * n - 1
            /\ {ks[i] : i \in 1..n} = DOMAIN pin.params
            /\ \A i \in 1..n :
                  /\ out[4 * i - 2] = "="
                  /\ out[4 * i - 1] = pin.params[ks[i]]
                  /\ i < n => out[4 * i] = "&"
            /\ \A i \in 1..(n - 1) : ~StrLess(ks[i + 1], ks[i])
            /\ pout[2] = out

\* three entries, iterated in two different orders, neither of them sorted
C15_Witness ==
    /\ pfun = "build_query_string"
    /\ DOMAIN pin.params = {"timestamp", "timeInForce", "side"}
    /\ pin.iter = <<"timestamp", "side", "timeInForce">>
    /\ pin.again = <<"timeInForce", "timestamp", "side">>
    /\ pin.params["side"] = "BUY"
    /\ pout[1] = <<"side", "=", "BUY", "&", "timeInForce", "=", pin.params["timeInForce"],
                   "&", "timestamp", "=", pin.params["timestamp"]>>
    /\ pout[2] = pout[1]

\* ----------------------------------------------------------------------
\* C17: for any payload P, the single-envelope frame (P at top level with
\* "e":"24hrTicker") and the combined-envelope frame
\* {stream: "<sym>@ticker", data: P} hand the same events to the channel:
\* the same Ticker event, or none in both cases.
C17_EnvelopesDecodeAlike ==
    pfun = "handle_message_both" =>
        /\ pout[1].emit = pout[2].emit
        /\ pout[1].err = pout[2].err
        /\ Len(pout[1].emit) <= 1

\* a payload with all four members, decoded to the same Ticker both ways
C17_Witness ==
    /\ pfun = "handle_message_both"
    /\ pin.P = Payload("BTCUSDT", "50000.00", "1000.0", 1640)
    /\ pout[1].emit = <<TickerEvent("BTCUSDT", 50000, 1000, 1640)>>
    /\ pout[2].emit = <<TickerEvent("BTCUSDT", 50000, 1000, 1640)>>

\* ----------------------------------------------------------------------
\* the channel name has the form <symbol>@ticker
IsTickerChannel(stream) == Len(stream) = 2 /\ stream[2] = "@ticker"

\* C18: handle_message forwards a Ticker event only for a combined
\* envelope whose stream name is <symbol>@ticker or for a top-level frame
\* whose "e" is "24hrTicker"; a combined envelope of any other channel and
\* a top-level frame of another event type enqueue nothing.
C18_OnlyTickerChannelsForwarded ==
    (pfun = "handle_message" /\ pout.emit # <<>>) =>
        \/ IsTickerChannel(pin.stream)
        \/ (pin.stream = NoChannel /\ pin.e = "24hrTicker")

\* ----------------------------------------------------------------------
\* the frame is one that handle_message hands to parse_ticker
RoutedToParseTicker(f) ==
    /\ f.kind = "text" /\ f.json
    /\ \/ IsTickerChannel(f.stream)
       \/ (f.stream = NoChannel /\ f.e = "24hrTicker")

\* the "c" or "v" member is absent, or is a string that parses as f64
MissingOrNumber(m) == m = Missing \/ ParseF64(m).ok

\* C19: a ticker frame whose "s", "c" or "v" member is missing (the
\* members that are present being well formed) produces exactly one
\* Ticker event: price 0.0 for a missing "c", volume 0.0 for a missing
\* "v", the empty symbol for a missing "s", and for every member that is
\* present the value the frame carries.
C19_MissingFieldsAreDefaulted ==
    (/\ pfun = "handle_message"
     /\ RoutedToParseTicker(pin)
     /\ MissingOrNumber(pin.p.c) /\ MissingOrNumber(pin.p.v)) =>
        /\ ~pout.err
        /\ Len(pout.emit) = 1
        /\ pout.emit[1].tag = "Ticker"
        /\ pout.emit[1].symbol = (IF pin.p.s = Missing THEN "" ELSE pin.p.s)
        /\ pout.emit[1].price = (IF pin.p.c = Missing THEN 0 ELSE ParseF64(pin.p.c).val)
        /\ pout.emit[1].volume = (IF pin.p.v = Missing THEN 0 ELSE ParseF64(pin.p.v).val)
        /\ pout.emit[1].timestamp = (IF pin.p.E = NoU64 THEN 0 ELSE pin.p.E)

\* price and symbol missing, volume and event time present
C19_Witness ==
    /\ pfun = "handle_message"
    /\ RoutedToParseTicker(pin)
    /\ pin.p = Payload(Missing, Missing, "1000.0", 1640)
    /\ pout.emit = <<TickerEvent("", 0, 1000, 1640)>>

\* ----------------------------------------------------------------------
\* C20: build_stream_url returns the single-stream URL
\* /ws/<symbol lowercased>@ticker exactly when one symbol was requested;
\* for any other number of symbols it returns the combined-stream URL
\* whose streams value is each symbol lowercased followed by @ticker, in
\* the requested order, joined by "/".
C20_UrlShapeFollowsSymbolCount ==
    pfun = "build_stream_url" =>
        LET n == Len(pin)
        IN  /\ (pout[1] = SingleUrlPrefix) <=> (n = 1)
            /\ n = 1 => pout = <<SingleUrlPrefix, ToLowercase(pin[1]), "@ticker">>
            /\ n # 1 =>
                  /\ pout[1] = CombinedUrlPrefix
                  /\ Len(pout) = (IF n = 0 THEN 1 ELSE 3 * n)
                  /\ \A i \in 1..n :
                        /\ pout[3 * i - 1] = ToLowercase(pin[i])
                        /\ pout[3 * i] = "@ticker"
                        /\ i < n => pout[3 * i + 1] = "/"

\* two symbols, the second one first in the alphabet
C20_Witness ==
    /\ pfun = "build_stream_url"
    /\ pin = <<"ETHUSDT", "BTCUSDT">>
    /\ pout = <<CombinedUrlPrefix, "ethusdt", "@ticker", "/", "btcusdt", "@ticker">>

\* ----------------------------------------------------------------------
\* C22: when the connection attempt fails the handle already exists, the
\* ingest task has ended without reading a frame or enqueuing an event
\* (no Error event either), every next_event that has returned has
\* returned None, and a next_event that is waiting does return None:
\* through the handle the failure looks like a stream that ended empty.
C22_ConnectFailureLooksLikeEmptyStream ==
    /\ [](startResult = "Err" =>
            /\ handle \in {"alive", "dropped"}
            /\ taskpc = "ended" /\ senders = 0
            /\ wire = <<>> /\ sent = <<>> /\ queue = <<>> /\ failedSends = 0
            /\ \A i \in 1..Len(returned) : returned[i] = NoneEvent)
    /\ (startResult = "Err" /\ cpc = "waiting")
          ~> (Len(returned) >= 1 /\ returned[1] = NoneEvent)

\* the connection failed and the consumer's first next_event returned None
C22_Witness ==
    /\ startResult = "Err"
    /\ connects = 1
    /\ handle = "alive"
    /\ returned = <<NoneEvent>>

\* ----------------------------------------------------------------------
\* C21: two calls of sign with equal messages, made on traders holding
\* the same secret key, return equal signatures, whatever was signed in
\* between and whichever of the traders was called.
C21_SignIsDeterministic ==
    \A i, j \in 1..Len(signed) :
        (/\ SecretOf(signed[i].trader) = SecretOf(signed[j].trader)
         /\ signed[i].msg = signed[j].msg) =>
            signed[i].sig = signed[j].sig

\* the same message signed on two traders sharing the secret, with another
\* message signed on the first trader in between
C21_Witness ==
    /\ Len(signed) = 3
    /\ signed[1].trader = "trader1"
    /\ signed[2].trader = "trader1"
    /\ signed[3].trader = "trader2"
    /\ signed[1].msg # <<>>
    /\ signed[2].msg # signed[1].msg
    /\ signed[3].msg = signed[1].msg
    /\ signed[3].sig = signed[1].sig
    /\ signed[2].sig # signed[1].sig
====
